---- MODULE Spec2Model ----
(***************************************************************************)
(* Model of src/GenerateI8Depthwise.cc (FBGEMM): the JIT generator of the  *)
(* quantized depthwise convolution kernels.  GenI8Depthwise::getOrCreate   *)
(* plans the vector registers from the kernel signature, emits two copies  *)
(* of the channel-group body (the full, unmasked iteration and the tail    *)
(* iteration) and commits the code to the JIT runtime.                     *)
(*                                                                         *)
(* Three views of the program are modelled:                                *)
(*   Spec       the execution of one generated kernel, block by block, on  *)
(*              a symbolic register file (which channel and how many taps  *)
(*              every element of every register holds);                    *)
(*   SpecMac /  the arithmetic of one channel lane of the packed reduction *)
(*   SpecRowSum (saturating 16-bit stage, 32-bit widening) and of the row  *)
(*              sum;                                                       *)
(*   SpecCache  threads calling getOrCreate concurrently.                  *)
(***************************************************************************)
EXTENDS Integers, Sequences, FiniteSets, TLC

\* ------------------------------------------------------------------ bounds
\* Largest filter extent S of the signatures whose kernel is executed.
MaxS == 3
\* Largest number of channel groups (ceil(c_in/32)) of a kernel call.
MaxGroups == 3

\* ------------------------------------------------------- program constants
\* simd_info<inst_set_t::avx2>::WIDTH_BYTES
WIDTH_BYTES == 32
\* simd_info<inst_set_t::avx2>::WIDTH_32BIT_ELEMS
vlen == 8
\* "int vreg_id = 2; // reserve 2 for temp vreg"
FirstVreg == 2
\* the index of the last ymm register, tested by "vreg_id == 15" / "vreg_id < 15"
LastVreg == 15

Min(x, y) == IF x < y THEN x ELSE y

\* ------------------------------------------------------ kernel signatures
\* K = S^D, the number of filter taps.
KOf(D, S) == IF D = 2 THEN S * S ELSE S * S * S

K(sig) == KOf(sig.D, sig.S)

has_pad(sig) ==
  \/ sig.prev_skip # 0 \/ sig.next_skip # 0
  \/ sig.top_skip # 0 \/ sig.bottom_skip # 0
  \/ sig.left_skip # 0 \/ sig.right_skip # 0

need_zero(sig) == K(sig) % 4 = 3 \/ K(sig) % 4 = 1

\* The value of vreg_id after the A-tiles, the C-accumulators, the row-sum
\* registers, the mask, one_epi8 and one_epi16 have taken their registers.
VregAfterConstants(sig) ==
  LET v_c    == FirstVreg + 4 + 4
      v_sum  == IF sig.compute_a_sum THEN v_c + 2 ELSE v_c
      v_mask == IF sig.remainder # WIDTH_BYTES THEN v_sum + 1 ELSE v_sum
      v_one8 == IF sig.compute_a_sum THEN v_mask + 1 ELSE v_mask
  IN  IF K(sig) > 2 THEN v_one8 + 1 ELSE v_one8

\* "if (vreg_id < 15) ++vreg_id;  x86::Ymm zero(vreg_id);"
ZeroVregUncapped(vreg_id) == vreg_id + 1

ZeroVreg(vreg_id) == IF vreg_id < LastVreg THEN vreg_id + 1 ELSE vreg_id

recompute_zero(sig) == VregAfterConstants(sig) = LastVreg /\ need_zero(sig)

\* The register of every vector role, as lines 260-317 assign them.
RegisterPlan(sig) ==
  LET v_c    == FirstVreg + 4 + 4
      v_sum  == IF sig.compute_a_sum THEN v_c + 2 ELSE v_c
      v_mask == IF sig.remainder # WIDTH_BYTES THEN v_sum + 1 ELSE v_sum
      v_one8 == IF sig.compute_a_sum THEN v_mask + 1 ELSE v_mask
      v_zp   == VregAfterConstants(sig)
  IN  [ a01_lo            |-> 0,
        a01_hi            |-> 1,
        a                 |-> [k \in 0..3 |-> FirstVreg + k],
        c                 |-> [k \in 0..3 |-> FirstVreg + 4 + k],
        a_sum             |-> [k \in 0..1 |-> v_c + k],
        mask_vreg         |-> v_sum,
        one_epi8          |-> v_mask,
        one_epi16         |-> v_one8,
        a_zero_point_vreg |-> v_zp,
        zero              |-> ZeroVreg(v_zp) ]

\* Whether filter tap i (in emission order f_t, f_h, f_w) is a padded tap.
TapPad(sig, i) ==
  LET S   == sig.S
      f_w == i % S
      f_h == (i \div S) % S
      f_t == i \div (S * S)
  IN  \/ sig.D > 2 /\ (f_t < sig.prev_skip \/ f_t >= S - sig.next_skip)
      \/ f_h < sig.top_skip \/ f_h >= S - sig.bottom_skip
      \/ f_w < sig.left_skip \/ f_w >= S - sig.right_skip

\* "Compute when we have 4 inputs or this is the last iteration"
IsQuadEnd(sig, i) == i % 4 = 3 \/ i = K(sig) - 1

\* The taps left from the start of tap i's quad: K - i / 4 * 4.
TapsLeft(sig, i) == K(sig) - (i \div 4) * 4

\* n of genMaddEpi16xNPacked: std::min(K - i / 4 * 4, 4)
QuadN(sig, i) == Min(TapsLeft(sig, i), 4)

\* The zeroing of the shared register before the last quad (lines 383-387).
ZeroBeforeLastQuad(sig, i) ==
  /\ i = K(sig) - 1
  /\ ((i \div 4) * 4 = K(sig) - 3 \/ (i \div 4) * 4 = K(sig) - 1)
  /\ recompute_zero(sig) /\ has_pad(sig)

\* The zero-point broadcast emitted at the start of each body copy (line 349).
RematerializeNever(sig) == FALSE

RematerializeZeroPoint(sig) == recompute_zero(sig) /\ has_pad(sig)

\* The immediate added to b_addr after tap i's quad in the body copy
\* main_loop (lines 402-406); C evaluates 32 * (n + 1) / 2 * 2 left to right.
WeightAdvance(sig, i, main_loop) ==
  IF i # K(sig) - 1 THEN 32 * 4
  ELSE IF main_loop THEN ((32 * (TapsLeft(sig, i) + 1)) \div 2) * 2
  ELSE 0

\* The re-packing of the accumulators into channel order (line 408).
NeedsRepack(sig, i) == TapsLeft(sig, i) >= 3 /\ TapsLeft(sig, i) <= 6

\* The number of 8-channel blocks a body copy stores: main_loop ? 4 : remainder / 8
StoreBlocks(sig, main_loop) == IF main_loop THEN 4 ELSE sig.remainder \div 8

\* The remainder genMaddEpi16xNPacked is generated for: main_loop ? 32 : remainder
BodyRemainder(sig, main_loop) == IF main_loop THEN 32 ELSE sig.remainder

\* ------------------------------------------------------- register values
\* A ymm register holds [tag, lay, cnt]: what kind of value it is, the channel
\* (32 * group + lane, or -1 for no channel's data) each of its elements
\* belongs to, and how many filter taps the value covers.  A constant
\* register (zero, zero point, ones, mask) has the empty layout.
Undef == [tag |-> "undef", lay |-> <<>>, cnt |-> 0]

ConstV(t) == [tag |-> t, lay |-> <<>>, cnt |-> 0]

JunkLay(n) == [j \in 1..n |-> -1]

LayOf(v, n) == IF Len(v.lay) = n THEN v.lay ELSE JunkLay(n)

MergeLay(l1, l2) == [j \in 1..Len(l1) |-> IF l1[j] = l2[j] THEN l1[j] ELSE -1]

IsConstReg(v) == Len(v.lay) = 0 /\ v.tag # "undef"

W(vr, d, v) == [vr EXCEPT ![d] = v]

\* vpunpcklbw / vpunpckhbw dst, x, y: per 128-bit lane, the low (high) 8
\* bytes of x and y interleaved; element e of the result is a byte pair.
UnpackBytes(x, y, hi) ==
  LET src(e) == ((e - 1) \div 8) * 16 + (IF hi THEN 8 ELSE 0) + ((e - 1) % 8) + 1
      xl == LayOf(x, 32)
      yl == IF IsConstReg(y) THEN xl ELSE LayOf(y, 32)
  IN  [ tag |-> "ilv8",
        lay |-> [e \in 1..16 |-> IF xl[src(e)] = yl[src(e)] THEN xl[src(e)] ELSE -1],
        cnt |-> x.cnt + (IF IsConstReg(y) THEN 0 ELSE y.cnt) ]

\* vpunpcklwd / vpunpckhwd dst, x, y: per 128-bit lane, the low (high) 4
\* words of x and y interleaved; element e of the result is a byte quadruple.
UnpackWords(x, y, hi) ==
  LET src(e) == ((e - 1) \div 4) * 8 + (IF hi THEN 4 ELSE 0) + ((e - 1) % 4) + 1
      xl == LayOf(x, 16)
      yl == LayOf(y, 16)
  IN  [ tag |-> "ilv16",
        lay |-> [e \in 1..8 |-> IF xl[src(e)] = yl[src(e)] THEN xl[src(e)] ELSE -1],
        cnt |-> x.cnt + y.cnt ]

\* vpmaddubsw dst, x, [b + off]: the byte pairs of x times the weights.
MaddWeights(x) == [tag |-> "mad16", lay |-> x.lay, cnt |-> x.cnt]

\* vpmaddubsw dst, x, one_epi8: the byte pairs of x summed.
MaddOnes(x, one_epi8) ==
  [ tag |-> "sum16",
    lay |-> IF one_epi8.tag = "one8" THEN LayOf(x, 16) ELSE JunkLay(16),
    cnt |-> x.cnt ]

\* vpmaddwd dst, x, one_epi16: the word pairs of x summed into dwords.
MaddWd(x, one_epi16) ==
  [ tag |-> "acc",
    lay |-> IF one_epi16.tag = "one16" THEN LayOf(x, 8) ELSE JunkLay(8),
    cnt |-> x.cnt ]

\* vpaddd / vpaddsw dst, x, y: element-wise sum.
AddElems(x, y, n, t) ==
  [tag |-> t, lay |-> MergeLay(LayOf(x, n), LayOf(y, n)), cnt |-> x.cnt + y.cnt]

\* vpmovsxwd dst, x.half(): the low 8 words of x widened to dwords.
SignExtendLow(x, t) ==
  [tag |-> t, lay |-> [e \in 1..8 |-> LayOf(x, 16)[e]], cnt |-> x.cnt]

\* vextracti128 x.half(), x, 1: the high 8 words of x moved to its low half.
ExtractHigh(x) ==
  [ tag |-> x.tag,
    lay |-> [e \in 1..16 |-> IF e <= 8 THEN LayOf(x, 16)[e + 8] ELSE -1],
    cnt |-> x.cnt ]

\* vperm2f128 dst, x, y, imm: 0x20 takes the low halves of x and y, 0x31
\* their high halves.
Perm2f128(x, y, high) ==
  LET o == IF high THEN 4 ELSE 0
  IN  [ tag |-> "acc",
        lay |-> [e \in 1..8 |-> IF e <= 4 THEN LayOf(x, 8)[e + o]
                                          ELSE LayOf(y, 8)[e - 4 + o]],
        cnt |-> IF x.cnt = y.cnt THEN x.cnt ELSE 0 ]

\* ------------------------------------------------- emitted instructions
\* A vector instruction of the emitted code: op, the destination register,
\* the source registers x and y, an immediate (a high/low selector or a byte
\* offset) and whether y stands for the missing tap of a quad of 1 or 3.
Ins(op, dst, x, y, imm, z) ==
  [op |-> op, dst |-> dst, x |-> x, y |-> y, imm |-> imm, z |-> z]

\* ------------------------------------------------ genMaddEpi16xNPacked
\* Lines 61-71: the byte interleavings a01_lo, a01_hi, a23_lo (= a[1]) and
\* a23_hi (= a[3]), with zero in place of the missing tap when n is 1 or 3.
MaddInterleave(P, n, remainder) ==
  LET a   == P.a
      y01 == IF n = 1 THEN P.zero ELSE a[1]
      y23 == IF n = 3 THEN P.zero ELSE a[3]
  IN  <<Ins("vpunpckbw", P.a01_lo, a[0], y01, 0, n = 1)>>
      \o (IF remainder >= 8
          THEN <<Ins("vpunpckbw", P.a01_hi, a[0], y01, 1, n = 1)>> ELSE <<>>)
      \o (IF n > 2
          THEN <<Ins("vpunpckbw", a[1], a[2], y23, 0, n = 3)>> ELSE <<>>)
      \o (IF n > 2 /\ remainder >= 8
          THEN <<Ins("vpunpckbw", a[3], a[2], y23, 1, n = 3)>> ELSE <<>>)

\* Lines 73-99: the row-wise sum of A, 16 bits per channel.
MaddRowSum(P, n, remainder, accumulation) ==
  LET a   == P.a
      as  == P.a_sum
      one == P.one_epi8
  IN  (IF accumulation
       THEN <<Ins("vpmaddubsw1", a[0], P.a01_lo, one, 0, FALSE),
              Ins("vpaddsw", as[0], a[0], as[0], 0, FALSE)>>
            \o (IF remainder >= 8
                THEN <<Ins("vpmaddubsw1", a[2], P.a01_hi, one, 0, FALSE),
                       Ins("vpaddsw", as[1], a[2], as[1], 0, FALSE)>>
                ELSE <<>>)
       ELSE <<Ins("vpmaddubsw1", as[0], P.a01_lo, one, 0, FALSE)>>
            \o (IF remainder >= 8
                THEN <<Ins("vpmaddubsw1", as[1], P.a01_hi, one, 0, FALSE)>>
                ELSE <<>>))
      \o (IF n > 2
          THEN <<Ins("vpmaddubsw1", a[0], a[1], one, 0, FALSE),
                 Ins("vpaddsw", as[0], a[0], as[0], 0, FALSE)>>
               \o (IF remainder >= 8
                   THEN <<Ins("vpmaddubsw1", a[2], a[3], one, 0, FALSE),
                          Ins("vpaddsw", as[1], a[2], as[1], 0, FALSE)>>
                   ELSE <<>>)
          ELSE <<>>)

\* Lines 101-137: a quad of 3 or 4 taps; accumulators in the layout
\* c0: c[0:4], c[16:20]  c1: c[4:8], c[20:24]  c2: c[8:12], c[24:28]  c3: ...
MaddQuad(P, remainder, accumulation) ==
  LET a   == P.a
      c   == P.c
      big == remainder >= 16
      Acc(k) == IF accumulation
                THEN <<Ins("vpmaddwd", a[k], a[k], P.one_epi16, 0, FALSE),
                       Ins("vpaddd", c[k], c[k], a[k], 0, FALSE)>>
                ELSE <<Ins("vpmaddwd", c[k], a[k], P.one_epi16, 0, FALSE)>>
  IN  <<Ins("vpunpckwd", a[0], P.a01_lo, a[1], 0, FALSE),
        Ins("vpunpckwd", a[1], P.a01_lo, a[1], 1, FALSE)>>
      \o (IF big
          THEN <<Ins("vpunpckwd", a[2], P.a01_hi, a[3], 0, FALSE),
                 Ins("vpunpckwd", a[3], P.a01_hi, a[3], 1, FALSE)>>
          ELSE <<>>)
      \o <<Ins("vpmaddubsw", a[0], a[0], a[0], 0, FALSE),
           Ins("vpmaddubsw", a[1], a[1], a[1], 32, FALSE)>>
      \o (IF big
          THEN <<Ins("vpmaddubsw", a[2], a[2], a[2], 64, FALSE),
                 Ins("vpmaddubsw", a[3], a[3], a[3], 96, FALSE)>>
          ELSE <<>>)
      \o Acc(0) \o Acc(1)
      \o (IF big THEN Acc(2) \o Acc(3) ELSE <<>>)

\* Lines 138-168: a final quad of 1 or 2 taps; accumulators in channel order.
MaddPair(P, remainder, accumulation) ==
  LET a   == P.a
      c   == P.c
      big == remainder >= 16
      Low(k)  == IF accumulation
                 THEN <<Ins("vpmovsxwd", a[k + 2], a[k], a[k], 0, FALSE),
                        Ins("vpaddd", c[k], c[k], a[k + 2], 0, FALSE)>>
                 ELSE <<Ins("vpmovsxwd", c[k], a[k], a[k], 0, FALSE)>>
      High(k) == IF accumulation
                 THEN <<Ins("vextracti128", a[k], a[k], a[k], 1, FALSE),
                        Ins("vpmovsxwd", a[k], a[k], a[k], 0, FALSE),
                        Ins("vpaddd", c[k + 2], c[k + 2], a[k], 0, FALSE)>>
                 ELSE <<Ins("vextracti128", a[k], a[k], a[k], 1, FALSE),
                        Ins("vpmovsxwd", c[k + 2], a[k], a[k], 0, FALSE)>>
  IN  <<Ins("vpmaddubsw", a[0], P.a01_lo, P.a01_lo, 0, FALSE),
        Ins("vpmaddubsw", a[1], P.a01_hi, P.a01_hi, 32, FALSE)>>
      \o Low(0) \o Low(1)
      \o (IF big THEN High(0) \o High(1) ELSE <<>>)

\* The instructions genMaddEpi16xNPacked emits for a quad of n taps.
genMaddEpi16xNPacked(P, has_a_sum, n, remainder, accumulation) ==
  MaddInterleave(P, n, remainder)
  \o (IF has_a_sum THEN MaddRowSum(P, n, remainder, accumulation) ELSE <<>>)
  \o (IF n > 2 THEN MaddQuad(P, remainder, accumulation)
               ELSE MaddPair(P, remainder, accumulation))

\* The weight bytes a sequence of instructions reads from [b_addr, ...).
RECURSIVE WeightBytes(_)
WeightBytes(prog) ==
  IF prog = <<>> THEN 0
  ELSE LET rest == WeightBytes(Tail(prog))
           here == IF Head(prog).op = "vpmaddubsw" THEN Head(prog).imm + 32 ELSE 0
       IN  IF here > rest THEN here ELSE rest

\* --------------------------------------------- executing the instructions
\* The int32 slots a vmovups of register v to [addr + off] writes.
StoreSlots(v, addr, off) ==
  { [slot |-> (addr + off) \div 4 + e - 1, ch |-> LayOf(v, 8)[e], cnt |-> v.cnt] :
    e \in 1..8 }

\* vmovups c[0], [b_zero_point_addr + off]: 8 per-channel weight zero points.
ZeroPointVector(g, off) ==
  [ tag |-> "bzp",
    lay |-> [e \in 1..8 |-> (g.b_zero_point_addr + off) \div 4 + e - 1],
    cnt |-> 0 ]

\* vpmulld dst, x, c[0]: the row sum times the zero point of its channel.
MulZeroPoint(x, z) ==
  [ tag |-> "rowsum",
    lay |-> IF IsConstReg(z) THEN LayOf(x, 8) ELSE MergeLay(LayOf(x, 8), LayOf(z, 8)),
    cnt |-> IF z.tag = "bzp" THEN x.cnt ELSE 0 ]

\* The value an instruction writes to its destination register.
Result(ins, r, g) ==
  CASE ins.op = "vpunpckbw"    -> UnpackBytes(r[ins.x], r[ins.y], ins.imm = 1)
    [] ins.op = "vpunpckwd"    -> UnpackWords(r[ins.x], r[ins.y], ins.imm = 1)
    [] ins.op = "vpmaddubsw"   -> MaddWeights(r[ins.x])
    [] ins.op = "vpmaddubsw1"  -> MaddOnes(r[ins.x], r[ins.y])
    [] ins.op = "vpmaddwd"     -> MaddWd(r[ins.x], r[ins.y])
    [] ins.op = "vpaddd"       -> AddElems(r[ins.x], r[ins.y], 8, "acc")
    [] ins.op = "vpaddsw"      -> AddElems(r[ins.x], r[ins.y], 16, "sum16")
    [] ins.op = "vpmovsxwd"    -> SignExtendLow(r[ins.x], "ext32")
    [] ins.op = "vextracti128" -> ExtractHigh(r[ins.x])
    [] ins.op = "vperm2f128"   -> Perm2f128(r[ins.x], r[ins.y], ins.imm = 1)
    [] ins.op = "vmovaps"      -> r[ins.x]
    [] ins.op = "vxorps"       -> ConstV("zero")
    [] ins.op = "vpbroadcastb" -> ConstV("zp")
    [] ins.op = "vpbroadcastd" -> ConstV("bzp")
    [] ins.op = "load_bzp"     -> ZeroPointVector(g, ins.imm)
    [] ins.op = "vpmulld"      -> MulZeroPoint(r[ins.x], r[ins.y])
    [] OTHER                   -> r[ins.dst]

\* The machine the instructions run on: the registers and what the code has
\* read as zero, stored to C, stored to the row-sum buffer, and read of the
\* weight zero points.
Machine(r) == [vr |-> r, zeroReads |-> {}, cStored |-> {}, sumStored |-> {}, bzpRead |-> {}]

Step(m, ins, g) ==
  [ vr        |-> IF ins.op \in {"store_c", "store_sum"} THEN m.vr
                  ELSE W(m.vr, ins.dst, Result(ins, m.vr, g)),
    zeroReads |-> IF ins.z THEN m.zeroReads \cup {m.vr[ins.y].tag} ELSE m.zeroReads,
    cStored   |-> IF ins.op = "store_c"
                  THEN m.cStored \cup StoreSlots(m.vr[ins.x], g.c_addr, ins.imm)
                  ELSE m.cStored,
    sumStored |-> IF ins.op = "store_sum"
                  THEN m.sumStored \cup StoreSlots(m.vr[ins.x], g.a_sum_addr, ins.imm)
                  ELSE m.sumStored,
    bzpRead   |-> IF ins.op = "load_bzp"
                  THEN m.bzpRead \cup {(g.b_zero_point_addr + ins.imm) \div 4 + e : e \in 0..7}
                  ELSE IF ins.op = "vpbroadcastd"
                  THEN m.bzpRead \cup {g.b_zero_point_addr \div 4}
                  ELSE m.bzpRead ]

RECURSIVE Exec(_, _, _)
Exec(m, prog, g) ==
  IF prog = <<>> THEN m ELSE Exec(Step(m, Head(prog), g), Tail(prog), g)

\* ---------------------------------------------------------- the mask table
\* The table behind mask_addr: 8 enabled dwords followed by 8 disabled ones,
\* read as a window of 8 dwords.
MaskTable == [j \in 0..15 |-> IF j < 8 THEN -1 ELSE 0]

\* The byte offset into the mask table (line 285).
MaskOffset(remainder) == ((vlen - remainder \div 4) % vlen) * 4

\* The byte lanes 0..31 a vmaskmovps with the tail's mask reads.
MaskLanes(remainder) ==
  {l \in 0..31 : MaskTable[MaskOffset(remainder) \div 4 + l \div 4] < 0}

\* ------------------------------------------------------------------- state
VARIABLES
  sig,        \* the signature the kernel was generated for
  c_in,       \* the channel count of the call
  pc,         \* the emitted block the call is at
  main_loop,  \* which copy of the body: the full iteration or the tail
  i,          \* the filter tap the body is at
  vr,         \* the ymm registers 0..15
  gp,         \* the general registers, pointers as byte offsets from the call's
  log,        \* what the call has read, written and emitted code has observed
  lane,       \* one channel lane of the reduction (SpecMac, SpecRowSum)
  cache,      \* codeCache_: per key, absent / building / ready with a callable
  th,         \* the threads calling getOrCreate
  rt          \* rtMutex_ and the JIT runtime

kvars == <<sig, c_in, pc, main_loop, i, vr, gp, log>>
cvars == <<cache, th, rt>>
vars == <<sig, c_in, pc, main_loop, i, vr, gp, log, lane, cache, th, rt>>

\* ------------------------------------------------ the generated kernel
\* The skip counts (prev, next, top, bottom, left, right) of the signatures
\* whose kernel is executed.
SkipPatterns ==
  { <<0, 0, 0, 0, 0, 0>>, <<1, 0, 0, 0, 0, 0>>, <<0, 1, 0, 0, 0, 0>>,
    <<0, 0, 1, 0, 1, 0>>, <<0, 0, 0, 1, 0, 1>>, <<1, 1, 1, 1, 1, 1>> }

Signatures ==
  { [ D |-> d, S |-> s, compute_a_sum |-> cs, per_channel_quantization |-> pq,
      remainder |-> r, prev_skip |-> k[1], next_skip |-> k[2], top_skip |-> k[3],
      bottom_skip |-> k[4], left_skip |-> k[5], right_skip |-> k[6] ] :
    d \in {2, 3}, s \in 1..MaxS, cs \in BOOLEAN, pq \in BOOLEAN,
    r \in 1..WIDTH_BYTES, k \in SkipPatterns }

NoLog ==
  [ padReads |-> {}, zeroReads |-> {}, materialized |-> {},
    aLoaded |-> {}, cStored |-> {}, sumStored |-> {}, bzpRead |-> {},
    bStart |-> 0, bRead |-> 0, fullIters |-> 0, tailIters |-> 0 ]

LaneIdle == [pc |-> "off"]
CacheIdle == [pc |-> "off"]

KernelInit ==
  /\ sig \in Signatures
  /\ \E groups \in 1..MaxGroups : c_in = WIDTH_BYTES * (groups - 1) + sig.remainder
  /\ pc = "entry"
  /\ main_loop = TRUE
  /\ i = 0
  /\ vr = [r \in 0..LastVreg |-> Undef]
  /\ gp = [ a_addr |-> 0, a_addr_save |-> 0, b_addr |-> 0, c_addr |-> 0,
            a_sum_addr |-> 0, b_zero_point_addr |-> 0,
            h |-> sig.S, w |-> sig.S, ic_loop_count |-> 0 ]
  /\ log = NoLog

\* The constant vectors the prologue materializes (lines 278-320), in order.
PrologueVectors(s) ==
  LET P  == RegisterPlan(s)
      m1 == IF s.remainder # WIDTH_BYTES THEN <<[role |-> "mask", reg |-> P.mask_vreg]>> ELSE <<>>
      m2 == IF s.compute_a_sum THEN <<[role |-> "one8", reg |-> P.one_epi8]>> ELSE <<>>
      m3 == IF K(s) > 2 THEN <<[role |-> "one16", reg |-> P.one_epi16]>> ELSE <<>>
      m4 == IF ~recompute_zero(s) /\ has_pad(s)
            THEN <<[role |-> "zp", reg |-> P.a_zero_point_vreg]>> ELSE <<>>
      m5 == IF need_zero(s) /\ (~recompute_zero(s) \/ ~has_pad(s))
            THEN <<[role |-> "zero", reg |-> P.zero]>> ELSE <<>>
  IN  m1 \o m2 \o m3 \o m4 \o m5

RECURSIVE Materialize(_, _)
Materialize(r, ms) ==
  IF ms = <<>> THEN r
  ELSE Materialize(W(r, Head(ms).reg, ConstV(Head(ms).role)), Tail(ms))

\* "Assign scalar registers" (lines 322-338).
PrologueScalars(g, s, cin) ==
  LET w1 == g.w * cin
      h1 == g.h * w1
      h2 == IF s.D >= 3 THEN h1 - w1 * s.S ELSE h1
      w2 == w1 - cin * s.S
  IN  [g EXCEPT !.w = w2, !.h = h2, !.a_addr_save = g.a_addr]

\* mov ic_loop_count, c_in; add 31; sar 5
LoopCountNoRound(cin) == cin \div 32

LoopCount(cin) == (cin + 31) \div 32

Prologue ==
  /\ pc = "entry"
  /\ vr' = Materialize(vr, PrologueVectors(sig))
  /\ gp' = [PrologueScalars(gp, sig, c_in) EXCEPT !.ic_loop_count = LoopCount(c_in)]
  /\ log' = [log EXCEPT !.materialized =
               {PrologueVectors(sig)[k].role : k \in 1..Len(PrologueVectors(sig))}]
  /\ pc' = "loop_begin"
  /\ UNCHANGED <<sig, c_in, main_loop, i, lane, cache, th, rt>>

\* ic_loop_begin: dec ic_loop_count; jle ic_loop_end (lines 344-346).  The
\* jump leaves the full body for the tail body emitted after ic_loop_end.
LoopBegin ==
  /\ pc = "loop_begin"
  /\ gp' = [gp EXCEPT !.ic_loop_count = gp.ic_loop_count - 1]
  /\ main_loop' = (gp.ic_loop_count - 1 > 0)
  /\ pc' = "iter_start"
  /\ UNCHANGED <<sig, c_in, i, vr, log, lane, cache, th, rt>>

\* The start of a body copy (lines 349-354).
IterStart ==
  /\ pc = "iter_start"
  /\ vr' = IF RematerializeZeroPoint(sig)
           THEN W(vr, RegisterPlan(sig).a_zero_point_vreg, ConstV("zp"))
           ELSE vr
  /\ i' = 0
  /\ log' = [log EXCEPT
               !.materialized = IF RematerializeZeroPoint(sig) THEN @ \cup {"zp"} ELSE @,
               !.aLoaded = {}, !.cStored = {}, !.sumStored = {}, !.bzpRead = {},
               !.bStart = gp.b_addr, !.bRead = 0,
               !.fullIters = IF main_loop THEN @ + 1 ELSE @,
               !.tailIters = IF main_loop THEN @ ELSE @ + 1]
  /\ pc' = "load"
  /\ UNCHANGED <<sig, c_in, main_loop, gp, lane, cache, th, rt>>

\* The a_addr updates after tap t (lines 421-431); the loop variable has
\* already been incremented when the row and the plane updates are emitted.
AdvanceA(g, s, cin, t) ==
  LET g1 == IF t # K(s) - 1 THEN [g EXCEPT !.a_addr = @ + cin] ELSE g
      g2 == IF (t + 1) % s.S = 0 /\ t + 1 # K(s) - 1
            THEN [g1 EXCEPT !.a_addr = @ + g.w] ELSE g1
  IN  IF (t + 1) % (s.S * s.S) = 0 /\ s.D >= 3 /\ t + 1 # K(s) - 1
      THEN [g2 EXCEPT !.a_addr = @ + g.h] ELSE g2

\* The lanes of the channel group at a_addr_save, as a 32-byte layout.
GroupLanes(base, lanes) == [e \in 1..32 |-> IF (e - 1) \in lanes THEN base + e - 1 ELSE -1]

\* "Load A" (lines 359-379): the zero point for a padded tap, else a masked
\* (tail) or a full load of 32 channels.
LoadTap ==
  /\ pc = "load"
  /\ LET P      == RegisterPlan(sig)
         dst    == P.a[i % 4]
         masked == ~main_loop /\ sig.remainder # 32
         lanes  == IF masked /\ vr[P.mask_vreg].tag = "mask"
                   THEN MaskLanes(sig.remainder) ELSE 0..31
     IN  IF TapPad(sig, i)
         THEN /\ vr' = W(vr, dst,
                         [ tag |-> vr[P.a_zero_point_vreg].tag,
                           lay |-> IF vr[P.a_zero_point_vreg].tag = "zp"
                                   THEN GroupLanes(gp.a_addr_save, 0..31)
                                   ELSE JunkLay(32),
                           cnt |-> 1 ])
              /\ log' = [log EXCEPT !.padReads = @ \cup {vr[P.a_zero_point_vreg].tag}]
         ELSE /\ vr' = W(vr, dst, [ tag |-> "A",
                                    lay |-> GroupLanes(gp.a_addr_save, lanes),
                                    cnt |-> 1 ])
              /\ log' = [log EXCEPT !.aLoaded = @ \cup lanes]
  /\ IF IsQuadEnd(sig, i)
     THEN pc' = "compute" /\ UNCHANGED <<i, gp>>
     ELSE pc' = "load" /\ i' = i + 1 /\ gp' = AdvanceA(gp, sig, c_in, i)
  /\ UNCHANGED <<sig, c_in, main_loop, lane, cache, th, rt>>

\* The re-packing of the accumulators (lines 408-419): vperm2f128 into a[r]
\* for every stored block, then the moves back into c[r].
Repack(P, blocks) ==
  [r \in 1..blocks |->
     Ins("vperm2f128", P.a[r - 1], P.c[((r - 1) % 2) * 2], P.c[((r - 1) % 2) * 2 + 1],
         IF r - 1 < 2 THEN 0 ELSE 1, FALSE)]
  \o [r \in 1..blocks |-> Ins("vmovaps", P.c[r - 1], P.a[r - 1], P.a[r - 1], 0, FALSE)]

\* The vector instructions at the end of tap i's quad (lines 383-419).
QuadCode(s, t, ml) ==
  LET P == RegisterPlan(s)
  IN  (IF ZeroBeforeLastQuad(s, t)
       THEN <<Ins("vxorps", P.zero, P.zero, P.zero, 0, FALSE)>> ELSE <<>>)
      \o genMaddEpi16xNPacked(P, s.compute_a_sum, QuadN(s, t),
                             BodyRemainder(s, ml), t \div 4 > 0)
      \o (IF NeedsRepack(s, t) THEN Repack(P, StoreBlocks(s, ml)) ELSE <<>>)

\* The end of a quad (lines 382-420): zero the shared register, reduce the
\* quad, advance b_addr, re-pack; then the a_addr updates of the tap.
Compute ==
  /\ pc = "compute"
  /\ LET code == QuadCode(sig, i, main_loop)
         m    == Exec(Machine(vr), code, gp)
         g1   == [gp EXCEPT !.b_addr = @ + WeightAdvance(sig, i, main_loop)]
     IN  /\ vr' = m.vr
         /\ gp' = AdvanceA(g1, sig, c_in, i)
         /\ log' = [log EXCEPT
                      !.zeroReads = @ \cup m.zeroReads,
                      !.materialized = IF ZeroBeforeLastQuad(sig, i) THEN @ \cup {"zero"} ELSE @,
                      !.bRead = gp.b_addr - log.bStart + WeightBytes(code)]
  /\ IF i = K(sig) - 1 THEN pc' = "store" /\ i' = i ELSE pc' = "load" /\ i' = i + 1
  /\ UNCHANGED <<sig, c_in, main_loop, lane, cache, th, rt>>

\* Lines 434-436: the accumulators of the stored blocks go to C.
StoreCode(s, ml) ==
  LET P == RegisterPlan(s)
  IN  [r \in 1..StoreBlocks(s, ml) |->
         Ins("store_c", P.c[r - 1], P.c[r - 1], P.c[r - 1], (r - 1) * 32, FALSE)]

StoreC ==
  /\ pc = "store"
  /\ log' = [log EXCEPT !.cStored = Exec(Machine(vr), StoreCode(sig, main_loop), gp).cStored]
  /\ pc' = IF sig.compute_a_sum THEN "row_sum" ELSE "loop_end"
  /\ UNCHANGED <<sig, c_in, main_loop, i, vr, gp, lane, cache, th, rt>>

\* Whether the row-sum block at byte offset 32 * blk is emitted (lines 448,
\* 457, 467; block 0 always is).
RowSumBlock(s, ml, blk) == blk = 0 \/ ml \/ s.remainder >= 8 * blk

\* One block of lines 438-475: load the zero point (block 0, and every block
\* when per channel), widen 8 row sums, multiply, store.
RowSumBlockCode(s, ml, blk) ==
  LET P   == RegisterPlan(s)
      c0  == P.c[0]
      src == P.a_sum[blk % 2]
      dst == IF blk < 2 THEN P.a[blk] ELSE src
  IN  IF ~RowSumBlock(s, ml, blk) THEN <<>>
      ELSE (IF s.per_channel_quantization
            THEN <<Ins("load_bzp", c0, c0, c0, 32 * blk, FALSE)>>
            ELSE IF blk = 0 THEN <<Ins("vpbroadcastd", c0, c0, c0, 0, FALSE)>>
            ELSE <<>>)
           \o (IF blk >= 2
               THEN <<Ins("vextracti128", src, src, src, 1, FALSE)>> ELSE <<>>)
           \o <<Ins("vpmovsxwd", dst, src, src, 0, FALSE),
                Ins("vpmulld", dst, dst, c0, 0, FALSE),
                Ins("store_sum", dst, dst, dst, 32 * blk, FALSE)>>

RowSumCode(s, ml) ==
  RowSumBlockCode(s, ml, 0) \o RowSumBlockCode(s, ml, 1)
  \o RowSumBlockCode(s, ml, 2) \o RowSumBlockCode(s, ml, 3)

\* Lines 438-483: the row sums times the weight zero point go to the row-sum
\* buffer; the full body then advances the two cursors.
RowSum ==
  /\ pc = "row_sum"
  /\ LET m == Exec(Machine(vr), RowSumCode(sig, main_loop), gp)
     IN  /\ vr' = m.vr
         /\ log' = [log EXCEPT !.sumStored = m.sumStored, !.bzpRead = m.bzpRead]
  /\ gp' = IF main_loop
           THEN [gp EXCEPT !.b_zero_point_addr =
                             IF sig.per_channel_quantization THEN @ + 128 ELSE @,
                           !.a_sum_addr = @ + 128]
           ELSE gp
  /\ pc' = "loop_end"
  /\ UNCHANGED <<sig, c_in, main_loop, i, lane, cache, th, rt>>

\* The end of the full body (lines 485-489): next group, jmp ic_loop_begin.
LoopJump ==
  /\ pc = "loop_end" /\ main_loop
  /\ gp' = [gp EXCEPT !.c_addr = @ + 128,
                      !.a_addr_save = @ + 32,
                      !.a_addr = gp.a_addr_save + 32]
  /\ pc' = "loop_begin"
  /\ UNCHANGED <<sig, c_in, main_loop, i, vr, log, lane, cache, th, rt>>

\* The end of the tail body: the epilog and the return (line 495).
Return ==
  /\ pc = "loop_end" /\ ~main_loop
  /\ pc' = "done"
  /\ UNCHANGED <<sig, c_in, main_loop, i, vr, gp, log, lane, cache, th, rt>>

Init == KernelInit /\ lane = LaneIdle /\ cache = CacheIdle /\ th = CacheIdle /\ rt = CacheIdle

Next ==
  \/ Prologue \/ LoopBegin \/ IterStart \/ LoadTap \/ Compute
  \/ StoreC \/ RowSum \/ LoopJump \/ Return

Spec == Init /\ [][Next]_vars

\* -------------------------------------------------- one channel lane
\* The arithmetic genMaddEpi16xNPacked's instructions perform on the bytes of
\* one channel: activations are unsigned 8-bit, weights signed 8-bit.
FilterSizes == {1, 3, 5, 7}
ActVals == {0, 255}
WgtVals == {-128, 127}
BzpVals == {-128, 1, 127}

Sat16(x) == IF x > 32767 THEN 32767 ELSE IF x < -32768 THEN -32768 ELSE x

\* vpmaddubsw: two unsigned-by-signed byte products added with signed
\* saturation to 16 bits.
PairProduct(a0, b0, a1, b1) == Sat16(a0 * b0 + a1 * b1)

\* What one quad of n taps adds to the channel's 32-bit accumulator: for 3 or
\* 4 taps vpmaddubsw then vpmaddwd by ones (lines 110-136), for 1 or 2 taps
\* vpmaddubsw then vpmovsxwd (lines 140-166); zero stands for a missing tap.
LaneQuad(n, a, b) ==
  IF n > 2
  THEN PairProduct(a[1], b[1], a[2], b[2])
       + PairProduct(a[3], b[3], IF n = 3 THEN 0 ELSE a[4], b[4])
  ELSE PairProduct(a[1], b[1], IF n = 1 THEN 0 ELSE a[2], b[2])

\* vpaddd c, c, x when accumulating, else the first quad's value.  A quad
\* adds at most 2 * 32768 in magnitude, so the 32-bit sum of the at most 86
\* quads of a 7x7x7 filter cannot wrap.
LaneAccumulate(acc, q, accumulation) == IF accumulation THEN acc + q ELSE q

\* The row sum of one quad (lines 73-99): vpmaddubsw by ones, vpaddsw.
LaneRowSum(asum, n, a, accumulation) ==
  LET s01 == PairProduct(a[1], 1, IF n = 1 THEN 0 ELSE a[2], 1)
      s23 == PairProduct(a[3], 1, IF n = 3 THEN 0 ELSE a[4], 1)
      t   == IF accumulation THEN Sat16(s01 + asum) ELSE s01
  IN  IF n > 2 THEN Sat16(s23 + t) ELSE t

\* vpmovsxwd, vpmulld: the row sum times the weight zero point (lines 444-445);
\* a 16-bit sum times an 8-bit zero point fits 32 bits.
LaneRowSumOut(asum, bzp) == asum * bzp

RECURSIVE ExactDot(_, _, _)
ExactDot(n, a, b) == IF n = 0 THEN 0 ELSE a[n] * b[n] + ExactDot(n - 1, a, b)

LaneInit(mode, sizes) ==
  /\ \E d \in {2, 3}, s \in sizes, z \in ActVals :
       lane = [ pc |-> "quad", mode |-> mode, D |-> d, S |-> s, i |-> 0, azp |-> z,
                acc |-> 0, exact |-> 0, asum |-> 0, sumExact |-> 0, bzp |-> 0,
                out |-> 0, per_channel |-> FALSE ]
  /\ sig = LaneIdle /\ c_in = 0 /\ pc = "off" /\ main_loop = FALSE /\ i = 0
  /\ vr = LaneIdle /\ gp = LaneIdle /\ log = LaneIdle
  /\ cache = CacheIdle /\ th = CacheIdle /\ rt = CacheIdle

\* One quad of the reduction of a channel: the taps' activations (the loaded
\* byte, or aZeroPoint for a padded tap) and weights are any of the values.
MacQuad ==
  /\ lane.pc = "quad" /\ lane.mode = "mac"
  /\ LET Kk == KOf(lane.D, lane.S)
         n  == Min(Kk - lane.i, 4)
     IN  \E a \in [1..4 -> ActVals \cup {lane.azp}], b \in [1..4 -> WgtVals] :
           lane' = [lane EXCEPT
                      !.acc = LaneAccumulate(lane.acc, LaneQuad(n, a, b), lane.i > 0),
                      !.exact = lane.exact + ExactDot(n, a, b),
                      !.i = lane.i + n,
                      !.pc = IF lane.i + n = Kk THEN "done" ELSE "quad"]
  /\ UNCHANGED <<kvars, cvars>>

\* One quad of the row sum of a channel.
SumQuad ==
  /\ lane.pc = "quad" /\ lane.mode = "rowsum"
  /\ LET Kk == KOf(lane.D, lane.S)
         n  == Min(Kk - lane.i, 4)
     IN  \E a \in [1..4 -> ActVals \cup {lane.azp}] :
           lane' = [lane EXCEPT
                      !.asum = LaneRowSum(lane.asum, n, a, lane.i > 0),
                      !.sumExact = lane.sumExact + ExactDot(n, a, [k \in 1..4 |-> 1]),
                      !.i = lane.i + n,
                      !.pc = IF lane.i + n = Kk THEN "out" ELSE "quad"]
  /\ UNCHANGED <<kvars, cvars>>

\* The row sum is multiplied by the weight zero point, one broadcast scalar
\* or the channel's own entry, and stored.
SumOut ==
  /\ lane.pc = "out"
  /\ \E z \in BzpVals, pcq \in BOOLEAN :
       lane' = [lane EXCEPT !.bzp = z, !.per_channel = pcq,
                            !.out = LaneRowSumOut(lane.asum, z), !.pc = "done"]
  /\ UNCHANGED <<kvars, cvars>>

MacInit == LaneInit("mac", 1..MaxS)

SpecMac == MacInit /\ [][MacQuad]_vars

RowSumInit == LaneInit("rowsum", FilterSizes)

RowSumNext == SumQuad \/ SumOut

SpecRowSum == RowSumInit /\ [][RowSumNext]_vars

\* ------------------------------------------------------- getOrCreate
\* Threads call GenI8Depthwise::getOrCreate.  The code cache keeps, per key,
\* no entry, a build in progress, or the callable; a caller that finds a
\* build in progress waits for its result; a build that returns the null
\* callable leaves no entry.
NumThreads == 2
MaxCalls == 2
MaxFailures == 1

Threads == 1..NumThreads

\* The signatures the threads ask for: two that differ in right_skip only.
CacheSig(s) ==
  [ D |-> 2, S |-> 3, compute_a_sum |-> FALSE, per_channel_quantization |-> FALSE,
    remainder |-> 32, prev_skip |-> 0, next_skip |-> 0, top_skip |-> 0,
    bottom_skip |-> 0, left_skip |-> 0, right_skip |-> s - 1 ]

CacheSigs == 1..2

\* kernelSig = std::make_tuple(D, S, compute_a_sum, ..., right_skip)
KernelSigNoRightSkip(s) ==
  << s.D, s.S, s.compute_a_sum, s.per_channel_quantization, s.remainder,
     s.prev_skip, s.next_skip, s.top_skip, s.bottom_skip, s.left_skip, s.left_skip >>

KernelSig(s) ==
  << s.D, s.S, s.compute_a_sum, s.per_channel_quantization, s.remainder,
     s.prev_skip, s.next_skip, s.top_skip, s.bottom_skip, s.left_skip, s.right_skip >>

Keys == {KernelSig(CacheSig(s)) : s \in CacheSigs}

Null == [ok |-> FALSE, s |-> 0, id |-> 0]

\* "if (err) { ...; return nullptr; } return fn;"
BuildResultIgnoringErr(err, fn) == fn

BuildResult(err, fn) == IF err THEN Null ELSE fn

NoEntry == [st |-> "absent", fn |-> Null]

CacheInit ==
  /\ cache = [k \in Keys |-> NoEntry]
  /\ th = [t \in Threads |->
             [ pc |-> "idle", s |-> 1, how |-> "none", err |-> FALSE, code |-> 0,
               fn |-> Null, result |-> Null, calls |-> 0 ]]
  /\ rt = [ mutex |-> 0, added |-> 0, failures |-> 0,
            builds |-> [s \in CacheSigs |-> 0], failed |-> [s \in CacheSigs |-> 0] ]
  /\ sig = LaneIdle /\ c_in = 0 /\ pc = "off" /\ main_loop = FALSE /\ i = 0
  /\ vr = LaneIdle /\ gp = LaneIdle /\ log = LaneIdle /\ lane = LaneIdle

KeyOf(t) == KernelSig(CacheSig(th[t].s))

\* A thread calls getOrCreate with a signature.
Call(t, s) ==
  /\ th[t].pc = "idle" /\ th[t].calls < MaxCalls
  /\ th' = [th EXCEPT ![t] = [@ EXCEPT !.pc = "lookup", !.s = s, !.how = "none",
                                       !.err = FALSE, !.code = 0, !.fn = Null,
                                       !.result = Null]]
  /\ UNCHANGED <<cache, rt, kvars, lane>>

\* codeCache_.getOrCreate(kernelSig, generator): under the cache's lock, a
\* ready entry is returned, a build in progress is waited for, and otherwise
\* this caller becomes the builder.
CacheLookup(t) ==
  /\ th[t].pc = "lookup"
  /\ LET e == cache[KeyOf(t)]
     IN  CASE e.st = "ready" ->
                /\ th' = [th EXCEPT ![t] = [@ EXCEPT !.pc = "return", !.how = "hit",
                                                     !.result = e.fn]]
                /\ UNCHANGED cache
           [] e.st = "building" ->
                /\ th' = [th EXCEPT ![t] = [@ EXCEPT !.pc = "wait", !.how = "waited"]]
                /\ UNCHANGED cache
           [] OTHER ->
                /\ th' = [th EXCEPT ![t] = [@ EXCEPT !.pc = "generate", !.how = "built"]]
                /\ cache' = [cache EXCEPT ![KeyOf(t)] = [st |-> "building", fn |-> Null]]
  /\ UNCHANGED <<rt, kvars, lane>>

\* The generator (lines 198-495): the instructions of the kernel of the
\* caller's signature are emitted into a CodeHolder.
Generate(t) ==
  /\ th[t].pc = "generate"
  /\ th' = [th EXCEPT ![t] = [@ EXCEPT !.pc = "lock", !.code = th[t].s]]
  /\ rt' = [rt EXCEPT !.builds[th[t].s] = @ + 1]
  /\ UNCHANGED <<cache, kvars, lane>>

\* std::unique_lock<std::mutex> lock(rtMutex_)
LockRuntime(t) ==
  /\ th[t].pc = "lock" /\ rt.mutex = 0
  /\ rt' = [rt EXCEPT !.mutex = t]
  /\ th' = [th EXCEPT ![t] = [@ EXCEPT !.pc = "add"]]
  /\ UNCHANGED <<cache, kvars, lane>>

\* err = runtime().add(&fn, &code), the unlock, and the generator's return
\* value (lines 501-508); whether add fails is the runtime's choice.
AddToRuntime(t, err) ==
  /\ th[t].pc = "add" /\ rt.mutex = t
  /\ err => rt.failures < MaxFailures
  /\ LET fn == [ok |-> TRUE, s |-> th[t].code, id |-> rt.added + 1]
     IN  th' = [th EXCEPT ![t] = [@ EXCEPT !.pc = "publish", !.err = err,
                                           !.fn = BuildResult(err, fn)]]
  /\ rt' = [rt EXCEPT !.mutex = 0,
                      !.added = IF err THEN @ ELSE @ + 1,
                      !.failures = IF err THEN @ + 1 ELSE @,
                      !.failed[th[t].s] = IF err THEN @ + 1 ELSE @]
  /\ UNCHANGED <<cache, kvars, lane>>

\* The builder hands the generator's value to the cache: a callable becomes
\* the entry, the null callable leaves none; the callers waiting for this
\* build proceed with the same value.
Publish(t) ==
  /\ th[t].pc = "publish"
  /\ cache' = [cache EXCEPT ![KeyOf(t)] =
                 IF th[t].fn.ok THEN [st |-> "ready", fn |-> th[t].fn] ELSE NoEntry]
  /\ th' = [u \in Threads |->
              IF u = t \/ (th[u].pc = "wait" /\ KeyOf(u) = KeyOf(t))
              THEN [th[u] EXCEPT !.pc = "return", !.result = th[t].fn]
              ELSE th[u]]
  /\ UNCHANGED <<rt, kvars, lane>>

\* getOrCreate returns the callable to its caller.
ReturnCallable(t) ==
  /\ th[t].pc = "return"
  /\ th' = [th EXCEPT ![t] = [@ EXCEPT !.pc = "idle", !.calls = @ + 1]]
  /\ UNCHANGED <<cache, rt, kvars, lane>>

CacheNext ==
  \E t \in Threads :
    \/ \E s \in CacheSigs : Call(t, s)
    \/ CacheLookup(t)
    \/ Generate(t)
    \/ LockRuntime(t)
    \/ \E err \in BOOLEAN : AddToRuntime(t, err)
    \/ Publish(t)
    \/ ReturnCallable(t)

SpecCache == CacheInit /\ [][CacheNext]_vars

\* The machine keeps executing the kernel's instructions until it returns:
\* WF_vars(Next), with the enabling condition of Next, which is that the
\* kernel has not returned, written out.
FairSpec == Spec /\ ([]<><<Next>>_vars \/ []<>(pc = "done"))

\* ------------------------------------------------------------ properties
\* The int32 slot of channel 0 of the current group in the C buffer, in the
\* row-sum buffer and in the per-channel weight zero points.
CBase == gp.c_addr \div 4

SumBase == gp.a_sum_addr \div 4

BzpBase == gp.b_zero_point_addr \div 4

\* The vector roles the emitted code of signature s materializes or writes,
\* each with its register.
UsedRoles(s) ==
  LET P == RegisterPlan(s)
  IN  { [role |-> <<"a01_lo", 0>>, reg |-> P.a01_lo], [role |-> <<"a01_hi", 0>>, reg |-> P.a01_hi] }
      \cup { [role |-> <<"a", k>>, reg |-> P.a[k]] : k \in 0..3 }
      \cup { [role |-> <<"c", k>>, reg |-> P.c[k]] : k \in 0..3 }
      \cup (IF s.compute_a_sum
            THEN { [role |-> <<"a_sum", k>>, reg |-> P.a_sum[k]] : k \in 0..1 }
                 \cup { [role |-> <<"one_epi8", 0>>, reg |-> P.one_epi8] }
            ELSE {})
      \cup (IF s.remainder # WIDTH_BYTES
            THEN { [role |-> <<"mask", 0>>, reg |-> P.mask_vreg] } ELSE {})
      \cup (IF K(s) > 2 THEN { [role |-> <<"one_epi16", 0>>, reg |-> P.one_epi16] } ELSE {})
      \cup (IF has_pad(s) THEN { [role |-> <<"zp", 0>>, reg |-> P.a_zero_point_vreg] } ELSE {})
      \cup (IF need_zero(s) THEN { [role |-> <<"zero", 0>>, reg |-> P.zero] } ELSE {})

\* The threads building the kernel of key k.
Builders(k) ==
  {t \in Threads : th[t].pc \in {"generate", "lock", "add", "publish"} /\ KeyOf(t) = k}

\* C1: for S in {1,3,5,7}, the value a channel lane has accumulated after
\* all K taps equals the exact sum of the products A_t * B_t.
C1_ExactProductSum ==
  (lane.pc = "done" /\ lane.S \in FilterSizes) => lane.acc = lane.exact

C4_TailStoresEveryChannel ==
  pc = "done" =>
    \A c \in 0..(sig.remainder - 1) :
      [slot |-> CBase + c, ch |-> gp.a_addr_save + c, cnt |-> K(sig)] \in log.cStored

\* C5: for R in 1..31 the tail iteration reads no activation byte, writes
\* no C slot, writes no row-sum slot and reads no per-channel weight zero
\* point of a channel >= R.
C5_TailWithinRemainder ==
  (pc = "done" /\ sig.remainder < WIDTH_BYTES) =>
    /\ log.aLoaded \subseteq 0..(sig.remainder - 1)
    /\ \A w \in log.cStored : w.slot - CBase \in 0..(sig.remainder - 1)
    /\ \A w \in log.sumStored : w.slot - SumBase \in 0..(sig.remainder - 1)
    /\ sig.per_channel_quantization =>
         \A e \in log.bzpRead : e - BzpBase \in 0..(sig.remainder - 1)

\* C6: the value stored to the row-sum buffer for a channel equals the
\* weight zero point times the exact sum of the K effective activations.
C6_ExactRowSum == lane.pc = "done" => lane.out = lane.bzp * lane.sumExact

\* C7: every padded-tap copy reads a register holding the zero-point
\* broadcast, and every missing-tap substitute read in a last quad of 1 or 3
\* taps reads a register holding zeros.
C7_PadAndZeroRegisters ==
  /\ log.padReads \subseteq {"zp"}
  /\ log.zeroReads \subseteq {"zero"}

\* A call of a kernel whose zero and zero-point broadcast share a register
\* has returned after a full and a tail iteration, both of which copied the
\* zero point into a padded tap and read zeros in the last quad.
C7_Witness ==
  /\ pc = "done" /\ log.fullIters >= 1
  /\ recompute_zero(sig) /\ has_pad(sig)
  /\ RegisterPlan(sig).zero = RegisterPlan(sig).a_zero_point_vreg
  /\ log.padReads = {"zp"} /\ log.zeroReads = {"zero"}

\* C8: the roles the code uses take registers 0..15, pairwise distinct except
\* that zero and the zero-point broadcast share one exactly when both are
\* used and vreg_id has reached 15, and then every iteration starts with the
\* zero-point broadcast in that register.
C8_RegisterPlan ==
  LET U     == UsedRoles(sig)
      P     == RegisterPlan(sig)
      both  == need_zero(sig) /\ has_pad(sig)
      share == both /\ P.zero = P.a_zero_point_vreg
  IN  /\ \A u \in U : u.reg \in 0..LastVreg
      /\ \A u, v \in U :
           (u.role # v.role /\ u.reg = v.reg) => {u.role, v.role} = {<<"zp", 0>>, <<"zero", 0>>}
      /\ share <=> (both /\ VregAfterConstants(sig) = LastVreg)
      /\ share => RematerializeZeroPoint(sig)
      /\ (share /\ pc = "load" /\ i = 0) => vr[P.a_zero_point_vreg] = ConstV("zp")

\* The tail iteration of a kernel with the shared register starts, after a
\* full iteration that zeroed the register.
C8_Witness ==
  /\ pc = "load" /\ i = 0 /\ ~main_loop /\ log.fullIters >= 1
  /\ need_zero(sig) /\ has_pad(sig)
  /\ RegisterPlan(sig).zero = LastVreg /\ RegisterPlan(sig).a_zero_point_vreg = LastVreg

\* The counts and the cursors of the channel loop.
LoopShape ==
  /\ log.fullIters + log.tailIters <= (c_in + 31) \div 32
  /\ log.tailIters <= 1
  /\ log.tailIters = 1 => log.fullIters = (c_in + 31) \div 32 - 1
  /\ pc = "done" => log.tailIters = 1
  /\ pc = "loop_begin" =>
       /\ gp.a_addr_save = 32 * log.fullIters
       /\ gp.a_addr = 32 * log.fullIters
       /\ gp.c_addr = 128 * log.fullIters

\* C9: a call runs the full body ceil(c_in/32) - 1 times, then the tail body
\* once, then returns; it always returns; after g full iterations the
\* activation base is at 32*g and the C pointer at 128*g.
C9_ChannelLoop == [](LoopShape) /\ <>(pc = "done")

\* A call with c_in = 65 has returned after two full iterations and the tail.
C9_Witness ==
  pc = "done" /\ c_in = 65 /\ log.fullIters = 2 /\ log.tailIters = 1 /\ gp.c_addr = 256

\* C10: at the end of a full iteration b_addr has advanced by the number of
\* weight bytes the iteration's quads have read.
C10_WeightAdvance ==
  (pc = "loop_end" /\ main_loop) => gp.b_addr - log.bStart = log.bRead

====
